---- MODULE Spec2Model ----
(***************************************************************************)
(* Terminal Snake game (movin-gun/snake).                                  *)
(*   Spec       one session of simple_game.SnakeGame: construction, then   *)
(*              run()'s tick loop (draw_board, handle_input, move_snake,   *)
(*              sleep), game_over and cleanup                              *)
(*   SpecInput  the same session with its input source: the terminal's     *)
(*              queue and the buffer of sys.stdin                          *)
(*   SpecMain   simple_game.main: difficulty selection, sessions, replay   *)
(*   SpecMenu   game.main: the main menu and the difficulty menu           *)
(*   SpecScores game.ScoreManager                                          *)
(***************************************************************************)
EXTENDS Integers, Sequences, FiniteSets, TLC

(***************************************************************************)
(* Bounds of the model.                                                    *)
(***************************************************************************)
\* number of loop iterations of run() that are explored
MaxTicks == 7
\* the same for each session started from main()
MaxMainTicks == 3
\* random.randint results are explored within this distance of the centre
FoodReach == 1

(***************************************************************************)
(* Program constants.                                                      *)
(***************************************************************************)
\* self.difficulties: 'size' of each difficulty
Difficulties ==
  [easy |-> <<15, 30>>, medium |-> <<20, 40>>, hard |-> <<25, 50>>]

\* self.score += 10
ScoreStep == 10

\* class Direction(Enum): value of each member
Delta(d) ==
  CASE d = "UP" -> <<-1, 0>>
    [] d = "DOWN" -> <<1, 0>>
    [] d = "LEFT" -> <<0, -1>>
    [] d = "RIGHT" -> <<0, 1>>

Directions == {"UP", "DOWN", "LEFT", "RIGHT"}

\* what stdin can hold when get_key_press polls it: nothing, an arrow
\* sequence ESC [ A..D, another ESC sequence, or a printable key
Inputs ==
  { <<>>,
    <<"ESC", "[", "A">>, <<"ESC", "[", "B">>,
    <<"ESC", "[", "C">>, <<"ESC", "[", "D">>,
    <<"ESC", "[", "H">>, <<"ESC", "O", "P">>,
    <<"q">>, <<"Q">>, <<"x">> }

VARIABLES
  difficulty,      \* key of self.difficulties the session was built with
  height, width,   \* self.height, self.width
  score,           \* self.score
  running,         \* self.running
  snake,           \* self.snake, head first
  direction,       \* self.direction
  next_direction,  \* self.next_direction
  food,            \* self.food
  pc,              \* position of run()
  key,             \* bytes read by the handle_input of the current tick
  result,          \* return statement the last move_snake left through
  ticks,           \* completed iterations of the loop in run()
  sessions,        \* SnakeGame objects constructed so far
  tty,             \* whether stdin is an interactive terminal
  term,            \* input mode of the terminal: "cooked" or "cbreak"
  old_settings,    \* self.old_settings
  line,            \* last line read by input()
  error,           \* exception caught by main(), "none" if none
  scores,          \* ScoreManager.scores
  scores_file,     \* the file ~/.snake_game_scores.json
  adds,            \* add_score calls made so far
  reply,           \* value returned by the last ScoreManager query
  selected_index,  \* main(): selected_index
  difficulty_index,   \* select_difficulty(): selected_index
  current_difficulty, \* main(): key of current_difficulty
  menu_key,        \* last value returned by get_menu_input
  adapter,         \* TerminalAdapter: terminal size and character ratio
  budget,          \* iterations of run() explored per session (no program
                   \* state: MaxTicks or MaxMainTicks)
  pending,         \* bytes typed that wait in the terminal's input queue
  buffered,        \* characters sys.stdin has read ahead and holds
  typed            \* keys typed so far

main_vars == <<sessions, tty, old_settings, line, error, budget>>
store_vars == <<scores, scores_file, adds, reply>>
menu_vars ==
  <<selected_index, difficulty_index, current_difficulty, menu_key, adapter>>

stdin_vars == <<pending, buffered, typed>>

vars == <<difficulty, height, width, score, running, snake, direction,
          next_direction, food, pc, key, result, ticks, term, main_vars,
          store_vars, menu_vars, stdin_vars>>

Range(s) == {s[i] : i \in 1..Len(s)}

Abs(n) == IF n < 0 THEN -n ELSE n

\* str.lower() on the one-character keys of Inputs
Lower(c) == IF c = "Q" THEN "q" ELSE c

(***************************************************************************)
(* SnakeGame.__init__                                                      *)
(***************************************************************************)
InitialSnakeBodyRight(h, w) ==
  << <<h \div 2, w \div 2>>, <<h \div 2, (w \div 2) + 1>>,
     <<h \div 2, (w \div 2) + 2>> >>
InitialSnake(h, w) ==
  << <<h \div 2, w \div 2>>, <<h \div 2, (w \div 2) - 1>>,
     <<h \div 2, (w \div 2) - 2>> >>

\* (random.randint(1, height - 2), random.randint(1, width - 2)), explored
\* within FoodReach of the centre
RandomCells(h, w) ==
  { <<r, c>> \in (1..(h - 2)) \X (1..(w - 2)) :
      Abs(r - (h \div 2)) <= FoodReach /\ Abs(c - (w \div 2)) <= FoodReach }

\* generate_food: the positions the retry loop can return
GenerateFoodAnywhere(s, h, w) == RandomCells(h, w)
generate_food(s, h, w) == {p \in RandomCells(h, w) : p \notin Range(s)}

\* the parts of the program a specification does not exercise
NoReply == [op |-> "none"]

NoFile == [exists |-> FALSE, valid |-> TRUE, content |-> <<>>]

NoStore ==
  scores = <<>> /\ scores_file = NoFile /\ adds = 0 /\ reply = NoReply

NoStdin == pending = <<>> /\ buffered = <<>> /\ typed = 0

NoMenu ==
  /\ selected_index = 0
  /\ difficulty_index = 0
  /\ current_difficulty = "MEDIUM"
  /\ menu_key = "none"
  /\ adapter = [columns |-> 80, lines |-> 24, ratio |-> 18]

Init ==
  /\ difficulty \in DOMAIN Difficulties
  /\ height = Difficulties[difficulty][1]
  /\ width = Difficulties[difficulty][2]
  /\ score = 0
  /\ running = TRUE
  /\ snake = InitialSnake(height, width)
  /\ direction = "RIGHT"
  /\ next_direction = "RIGHT"
  /\ food \in generate_food(snake, height, width)
  /\ pc = "while"
  /\ key = <<>>
  /\ result = "none"
  /\ ticks = 0
  /\ sessions = 1
  /\ tty = TRUE
  /\ term = "cbreak"
  /\ old_settings = "cooked"
  /\ line = ""
  /\ error = "none"
  /\ budget = MaxTicks
  /\ NoStore
  /\ NoMenu
  /\ NoStdin

(***************************************************************************)
(* run(): while self.running                                               *)
(***************************************************************************)
LoopTestIgnoresRunning(r) == "draw"
LoopTest(r) == IF r THEN "draw" ELSE "game_over"

While ==
  /\ pc = "while"
  /\ running => ticks < budget
  /\ pc' = LoopTest(running)
  /\ UNCHANGED <<difficulty, height, width, score, running, snake, direction,
                 next_direction, food, key, result, ticks>>
  /\ UNCHANGED <<term, main_vars, store_vars, menu_vars, stdin_vars>>

(***************************************************************************)
(* draw_board                                                              *)
(***************************************************************************)
Draw ==
  /\ pc = "draw"
  /\ pc' = "input"
  /\ UNCHANGED <<difficulty, height, width, score, running, snake, direction,
                 next_direction, food, key, result, ticks>>
  /\ UNCHANGED <<term, main_vars, store_vars, menu_vars, stdin_vars>>

(***************************************************************************)
(* handle_input (with get_key_press)                                       *)
(***************************************************************************)
\* the if/elif chain on key3
ArrowAnyTurn(key3, dir, next) ==
  CASE key3 = "A" -> "UP"
    [] key3 = "B" -> "DOWN"
    [] key3 = "C" -> "RIGHT"
    [] key3 = "D" -> "LEFT"
    [] OTHER -> next
Arrow(key3, dir, next) ==
  IF key3 = "A" /\ dir # "DOWN" THEN "UP"
  ELSE IF key3 = "B" /\ dir # "UP" THEN "DOWN"
  ELSE IF key3 = "C" /\ dir # "LEFT" THEN "RIGHT"
  ELSE IF key3 = "D" /\ dir # "RIGHT" THEN "LEFT"
  ELSE next

\* next_direction after handle_input has read the bytes k
NextDirectionAfter(k, dir, next) ==
  IF Len(k) = 0 THEN next
  ELSE IF k[1] = "ESC"
       THEN IF Len(k) >= 3 /\ k[2] = "[" THEN Arrow(k[3], dir, next) ELSE next
       ELSE next

\* running after handle_input has read the bytes k
RunningAfter(k, r) ==
  IF Len(k) = 0 THEN r
  ELSE IF k[1] = "ESC" THEN r
  ELSE IF Lower(k[1]) = "q" THEN FALSE
  ELSE r

HandleInput ==
  /\ pc = "input"
  /\ \E k \in Inputs :
       /\ key' = k
       /\ next_direction' = NextDirectionAfter(k, direction, next_direction)
       /\ running' = RunningAfter(k, running)
  /\ pc' = "move"
  /\ UNCHANGED <<difficulty, height, width, score, snake, direction, food,
                 result, ticks>>
  /\ UNCHANGED <<term, main_vars, store_vars, menu_vars, stdin_vars>>

(***************************************************************************)
(* move_snake                                                              *)
(***************************************************************************)
\* self.direction = self.next_direction
CommitKeepsDirection(dir, next) == dir
Commit(dir, next) == next

NewHeadTwoCells(head, d) ==
  <<head[1] + 2 * Delta(d)[1], head[2] + 2 * Delta(d)[2]>>
NewHead(head, d) == <<head[1] + Delta(d)[1], head[2] + Delta(d)[2]>>

HitsWallOutside(p, h, w) ==
  p[1] < 0 \/ p[1] > h - 1 \/ p[2] < 0 \/ p[2] > w - 1
HitsWall(p, h, w) ==
  p[1] <= 0 \/ p[1] >= h - 1 \/ p[2] <= 0 \/ p[2] >= w - 1

Pop(s) == SubSeq(s, 1, Len(s) - 1)

HitsSelfNever(p, s) == FALSE
HitsSelfAfterPop(p, s) == p \in Range(Pop(s))
HitsSelf(p, s) == p \in Range(s)

Insert(p, s) == <<p>> \o s

\* the snake after the food check, s being the snake after the insert
AfterFoodCheckKeepsTail(s, ate) == s
AfterFoodCheckPopsHead(s, ate) == IF ate THEN s ELSE Tail(s)
AfterFoodCheck(s, ate) == IF ate THEN s ELSE Pop(s)

ScoreAfterEveryStep(sc, ate) == sc + ScoreStep
ScoreAfterNoReward(sc, ate) == sc
ScoreAfter(sc, ate) == IF ate THEN sc + ScoreStep ELSE sc

\* the bool move_snake returns to run(): False breaks out of the loop
AfterMoveNoBreak(ok) == "sleep"
AfterMove(ok) == IF ok THEN "sleep" ELSE "game_over"

MoveSnake ==
  /\ pc = "move"
  /\ direction' = Commit(direction, next_direction)
  /\ LET new_head == NewHead(snake[1], next_direction) IN
       IF HitsWall(new_head, height, width)
       THEN /\ result' = "wall"
            /\ pc' = AfterMove(FALSE)
            /\ UNCHANGED <<snake, score, food>>
       ELSE IF HitsSelf(new_head, snake)
       THEN /\ result' = "self"
            /\ pc' = AfterMove(FALSE)
            /\ UNCHANGED <<snake, score, food>>
       ELSE LET ate == (new_head = food) IN
            /\ snake' = AfterFoodCheck(Insert(new_head, snake), ate)
            /\ score' = ScoreAfter(score, ate)
            /\ IF ate
               THEN food' \in generate_food(snake', height, width)
               ELSE food' = food
            /\ result' = IF ate THEN "ate" ELSE "moved"
            /\ pc' = AfterMove(TRUE)
  /\ key' = <<>>
  /\ UNCHANGED <<difficulty, height, width, running, next_direction, ticks>>
  /\ UNCHANGED <<term, main_vars, store_vars, menu_vars, stdin_vars>>

(***************************************************************************)
(* time.sleep(self.speed), end of one iteration                            *)
(***************************************************************************)
Sleep ==
  /\ pc = "sleep"
  /\ pc' = "while"
  /\ ticks' = ticks + 1
  /\ UNCHANGED <<difficulty, height, width, score, running, snake, direction,
                 next_direction, food, key, result>>
  /\ UNCHANGED <<term, main_vars, store_vars, menu_vars, stdin_vars>>

(***************************************************************************)
(* game_over, then the finally clause: cleanup                             *)
(***************************************************************************)
GameOver ==
  /\ pc = "game_over"
  /\ pc' = "cleanup"
  /\ UNCHANGED <<difficulty, height, width, score, running, snake, direction,
                 next_direction, food, key, result, ticks>>
  /\ UNCHANGED <<term, main_vars, store_vars, menu_vars, stdin_vars>>

Cleanup ==
  /\ pc = "cleanup"
  /\ term' = old_settings
  /\ pc' = "done"
  /\ UNCHANGED <<difficulty, height, width, score, running, snake, direction,
                 next_direction, food, key, result, ticks>>
  /\ UNCHANGED <<main_vars, store_vars, menu_vars, stdin_vars>>

Next ==
  \/ While
  \/ Draw
  \/ HandleInput
  \/ MoveSnake
  \/ Sleep
  \/ GameOver
  \/ Cleanup

Spec == Init /\ [][Next]_vars

TypeOK ==
  /\ difficulty \in DOMAIN Difficulties
  /\ score \in Nat
  /\ running \in BOOLEAN
  /\ Len(snake) >= 3
  /\ direction \in Directions
  /\ next_direction \in Directions
  /\ pc \in {"while", "draw", "input", "move", "sleep", "game_over",
             "cleanup", "done"}
  /\ result \in {"none", "wall", "self", "moved", "ate"}
  /\ ticks \in 0..MaxTicks

(***************************************************************************)
(* simple_game.main: select_difficulty, SnakeGame(difficulty), run(), and  *)
(* the "Play again?" prompt.                                               *)
(***************************************************************************)
\* number of SnakeGame objects that are constructed
MaxSessions == 2

\* lines the user can type at the input() prompts
Lines == {"1", " 2 ", "3", "4", "5", "", "y", " Yes ", "NO", "n", "maybe"}

\* str.strip() and str.lower() on the lines of Lines
Strip(l) ==
  CASE l = " 2 " -> "2"
    [] l = " Yes " -> "Yes"
    [] OTHER -> l

LowerLine(l) ==
  CASE l = "Yes" -> "yes"
    [] l = "NO" -> "no"
    [] OTHER -> l

\* select_difficulty: the value returned for a choice, "retry" when the
\* loop goes round again
ChosenDifficulty(choice) ==
  CASE choice = "1" -> "easy"
    [] choice = "2" -> "medium"
    [] choice = "3" -> "hard"
    [] choice = "4" -> "None"
    [] OTHER -> "retry"

\* the state before the first SnakeGame exists
InitMain ==
  /\ difficulty = "none"
  /\ height = 0
  /\ width = 0
  /\ score = 0
  /\ running = FALSE
  /\ snake = <<>>
  /\ direction = "RIGHT"
  /\ next_direction = "RIGHT"
  /\ food = <<0, 0>>
  /\ pc = "select"
  /\ key = <<>>
  /\ result = "none"
  /\ ticks = 0
  /\ sessions = 0
  /\ tty \in BOOLEAN
  /\ term = "cooked"
  /\ old_settings = "cooked"
  /\ line = ""
  /\ error = "none"
  /\ budget = MaxMainTicks
  /\ NoStore
  /\ NoMenu
  /\ NoStdin

\* SnakeGame(d) on an interactive terminal
Construct(d) ==
  /\ difficulty' = d
  /\ height' = Difficulties[d][1]
  /\ width' = Difficulties[d][2]
  /\ score' = 0
  /\ running' = TRUE
  /\ snake' = InitialSnake(height', width')
  /\ direction' = "RIGHT"
  /\ next_direction' = "RIGHT"
  /\ food' \in generate_food(snake', height', width')
  /\ old_settings' = term
  /\ term' = "cbreak"
  /\ key' = <<>>
  /\ result' = "none"
  /\ ticks' = 0
  /\ sessions' = sessions + 1

\* one round of select_difficulty; on a difficulty, main() builds the game
\* and enters run().  termios.tcgetattr raises when stdin is no terminal,
\* the game is not bound and main()'s except Exception ends the program.
SelectDifficulty ==
  /\ pc = "select"
  /\ \E choice \in Lines :
       /\ line' = choice
       /\ LET d == ChosenDifficulty(Strip(choice)) IN
            IF d = "retry"
            THEN /\ pc' = "select"
                 /\ UNCHANGED <<difficulty, height, width, score, running,
                                snake, direction, next_direction, food, key,
                                result, ticks, term, sessions, old_settings,
                                error>>
            ELSE IF d = "None"
            THEN /\ pc' = "exit"
                 /\ UNCHANGED <<difficulty, height, width, score, running,
                                snake, direction, next_direction, food, key,
                                result, ticks, term, sessions, old_settings,
                                error>>
            ELSE /\ sessions < MaxSessions
                 /\ IF tty
                    THEN /\ Construct(d)
                         /\ pc' = "while"
                         /\ error' = error
                    ELSE /\ pc' = "exit"
                         /\ error' = "termios.error"
                         /\ UNCHANGED <<difficulty, height, width, score,
                                        running, snake, direction,
                                        next_direction, food, key, result,
                                        ticks, term, sessions, old_settings>>
  /\ UNCHANGED <<tty, budget, store_vars, menu_vars, stdin_vars>>

\* the prompt after run() has returned: the value of pc after an answer
AfterAnswer(answer) ==
  IF answer \in {"y", "yes"} THEN "select"
  ELSE IF answer \in {"n", "no"} THEN "exit"
  ELSE "prompt"

PlayAgain ==
  /\ pc \in {"done", "prompt"}
  /\ \E restart \in Lines :
       /\ line' = restart
       /\ pc' = AfterAnswer(LowerLine(Strip(restart)))
  /\ UNCHANGED <<difficulty, height, width, score, running, snake, direction,
                 next_direction, food, key, result, ticks, term, sessions,
                 tty, old_settings, error, budget, store_vars, menu_vars, stdin_vars>>

NextMain ==
  \/ SelectDifficulty
  \/ While
  \/ Draw
  \/ HandleInput
  \/ MoveSnake
  \/ Sleep
  \/ GameOver
  \/ Cleanup
  \/ PlayAgain

SpecMain == InitMain /\ [][NextMain]_vars

(***************************************************************************)
(* game.py: TerminalAdapter and Difficulty                                 *)
(***************************************************************************)
Min(a, b) == IF a < b THEN a ELSE b

\* Difficulty.get_difficulty_settings: base_board_size of each difficulty
BaseSettings ==
  [EASY |-> <<15, 25>>, MEDIUM |-> <<20, 35>>, HARD |-> <<25, 45>>]

\* terminals that are explored: shutil.get_terminal_size() and the
\* character ratio of the terminal type, in tenths (1.6, 1.7, 1.8, 2.0):
\* the 80x24 default with the generic and the VS Code ratio, a tall, a
\* short and a narrow one, and panes of a few columns or lines
Viewport(c, l, r) == [columns |-> c, lines |-> l, ratio |-> r]

Adapters ==
  { Viewport(80, 24, 18), Viewport(80, 24, 16), Viewport(80, 40, 20),
    Viewport(80, 19, 18), Viewport(24, 24, 17), Viewport(80, 12, 18),
    Viewport(9, 13, 18), Viewport(8, 13, 18) }

\* TerminalAdapter.get_optimal_board_size;
\* int(base_height * char_ratio * 0.8) with the ratio in tenths
get_optimal_board_size(a, base_height, base_width) ==
  LET max_width == Min(a.columns - 4, base_width)
      max_height == Min(a.lines - 10, base_height)
      adjusted_width == (base_height * a.ratio * 8) \div 100
      final_width == Min(max_width, adjusted_width)
      final_height == Min(max_height, base_height)
  IN  <<final_height, final_width>>

(***************************************************************************)
(* game.main: the main menu loop and select_difficulty                     *)
(***************************************************************************)
\* values get_menu_input returns
MenuKeys == {"UP", "DOWN", "LEFT", "RIGHT", "ENTER", "QUIT",
             "1", "2", "3", "4", "5", "7"}

InitMenu ==
  /\ difficulty = "none"
  /\ height = 0
  /\ width = 0
  /\ score = 0
  /\ running = FALSE
  /\ snake = <<>>
  /\ direction = "RIGHT"
  /\ next_direction = "RIGHT"
  /\ food = <<0, 0>>
  /\ pc = "menu"
  /\ key = <<>>
  /\ result = "none"
  /\ ticks = 0
  /\ sessions = 0
  /\ tty = TRUE
  /\ term = "cooked"
  /\ old_settings = "cooked"
  /\ line = ""
  /\ error = "none"
  /\ budget = MaxMainTicks
  /\ NoStore
  /\ selected_index = 0
  /\ difficulty_index = 0
  /\ current_difficulty = "MEDIUM"
  /\ menu_key = "none"
  /\ adapter \in Adapters
  /\ NoStdin

\* selected_index after UP / DOWN in a menu whose last index is max_index
MenuMoveStopsAtEnds(index, k, max_index) ==
  IF k = "UP" THEN (IF index = 0 THEN 0 ELSE index - 1)
  ELSE IF k = "DOWN" THEN (IF index = max_index THEN max_index ELSE index + 1)
  ELSE index
MenuMove(index, k, max_index) ==
  IF k = "UP" THEN (index - 1) % (max_index + 1)
  ELSE IF k = "DOWN" THEN (index + 1) % (max_index + 1)
  ELSE index

\* the menu item (1..5) a key of the main menu activates, 0 for none
MainChoice(k, index) ==
  IF k = "ENTER" THEN index + 1
  ELSE IF k \in {"1", "2", "3", "4", "5"}
       THEN CASE k = "1" -> 1 [] k = "2" -> 2 [] k = "3" -> 3
              [] k = "4" -> 4 [] k = "5" -> 5
  ELSE 0

\* the methods class SnakeGame of game.py defines: handle_input,
\* move_snake, draw_board, game_over, cleanup, get_adjusted_speed and run
\* are indented under get_menu_input and are no attributes of the class
SnakeGameMethods == {"__init__", "generate_food", "get_key_press"}

\* the board SnakeGame.__init__ takes for difficulty d on this terminal
BoardSize(d) ==
  get_optimal_board_size(adapter, BaseSettings[d][1], BaseSettings[d][2])

\* random.randint(1, n) raises ValueError for n < 1
EmptyRange(h, w) == h - 2 < 1 \/ w - 2 < 1

\* the cells generate_food's loop can end on
FreeCells(s, h, w) ==
  {p \in (1..(h - 2)) \X (1..(w - 2)) : p \notin Range(s)}

\* game.SnakeGame(current_difficulty, terminal_adapter), up to the call of
\* generate_food
ConstructBoard(d) ==
  /\ difficulty' = d
  /\ height' = BoardSize(d)[1]
  /\ width' = BoardSize(d)[2]
  /\ score' = 0
  /\ running' = TRUE
  /\ snake' = InitialSnake(height', width')
  /\ direction' = "RIGHT"
  /\ next_direction' = "RIGHT"
  /\ key' = <<>>
  /\ result' = "none"
  /\ ticks' = 0

\* the rest of __init__: the food and the terminal settings
ConstructGame(d) ==
  /\ ConstructBoard(d)
  /\ food' \in generate_food(snake', height', width')
  /\ old_settings' = term
  /\ term' = "cbreak"
  /\ sessions' = sessions + 1

\* one round of the loop of main(): a key from get_menu_input (which puts
\* the terminal back as it found it) and the branch taken for it.  Start
\* game builds the SnakeGame and calls game.run, which is no attribute:
\* AttributeError is caught by except Exception and the loop goes on.  On
\* a board without interior random.randint raises ValueError in __init__,
\* which is caught likewise and no game object results; on a board whose
\* interior the snake fills the loop of generate_food does not end.
MainMenu ==
  /\ pc = "menu"
  /\ \E k \in MenuKeys :
       /\ menu_key' = k
       /\ selected_index' = MenuMove(selected_index, k, 4)
       /\ LET choice == IF k = "QUIT" THEN 5
                        ELSE MainChoice(k, selected_index) IN
            IF choice = 1
            THEN /\ sessions < MaxSessions
                 /\ difficulty_index' = difficulty_index
                 /\ LET size == BoardSize(current_difficulty) IN
                      IF EmptyRange(size[1], size[2])
                      THEN /\ pc' = "menu"
                           /\ error' = "ValueError"
                           /\ UNCHANGED <<difficulty, height, width, score,
                                          running, snake, direction,
                                          next_direction, food, key, result,
                                          ticks, sessions, term,
                                          old_settings>>
                      ELSE IF FreeCells(InitialSnake(size[1], size[2]),
                                        size[1], size[2]) = {}
                      THEN /\ ConstructBoard(current_difficulty)
                           /\ pc' = "generate_food"
                           /\ UNCHANGED <<food, sessions, term, old_settings,
                                          error>>
                      ELSE /\ ConstructGame(current_difficulty)
                           /\ IF "run" \in SnakeGameMethods
                              THEN pc' = "while" /\ error' = error
                              ELSE pc' = "menu" /\ error' = "AttributeError"
            ELSE /\ pc' = IF choice = 3 THEN "difficulty_menu"
                          ELSE IF choice = 5 THEN "exit"
                          ELSE "menu"
                 /\ difficulty_index' =
                      IF choice = 3 THEN 0 ELSE difficulty_index
                 /\ UNCHANGED <<difficulty, height, width, score, running,
                                snake, direction, next_direction, food, key,
                                result, ticks, sessions, term, old_settings,
                                error>>
  /\ UNCHANGED <<tty, line, budget, store_vars, current_difficulty, adapter,
                 stdin_vars>>

\* select_difficulty: the value returned for a key, "loop" when the menu
\* stays open
DifficultyChoice(k, index) ==
  IF k = "ENTER"
  THEN CASE index = 0 -> "EASY" [] index = 1 -> "MEDIUM"
         [] index = 2 -> "HARD" [] OTHER -> "None"
  ELSE IF k = "QUIT" THEN "None"
  ELSE IF k = "1" THEN "EASY"
  ELSE IF k = "2" THEN "MEDIUM"
  ELSE IF k = "3" THEN "HARD"
  ELSE IF k = "4" THEN "None"
  ELSE "loop"

DifficultyMenu ==
  /\ pc = "difficulty_menu"
  /\ \E k \in MenuKeys :
       /\ menu_key' = k
       /\ difficulty_index' = MenuMove(difficulty_index, k, 3)
       /\ LET d == DifficultyChoice(k, difficulty_index) IN
            /\ pc' = IF d = "loop" THEN "difficulty_menu" ELSE "menu"
            /\ current_difficulty' =
                 IF d \in DOMAIN BaseSettings THEN d ELSE current_difficulty
  /\ UNCHANGED <<difficulty, height, width, score, running, snake, direction,
                 next_direction, food, key, result, ticks, term, main_vars,
                 store_vars, selected_index, adapter, stdin_vars>>

NextMenu ==
  \/ MainMenu
  \/ DifficultyMenu

SpecMenu == InitMenu /\ [][NextMenu]_vars

(***************************************************************************)
(* game.ScoreManager                                                       *)
(***************************************************************************)
\* self.scores = self.scores[:10]
MaxEntries == 10
\* longest list found in the score file
MaxLoaded == 12
\* number of add_score calls that are explored
MaxAdds == 2

\* scores of the entries found in the file, and scores that are recorded
LoadedScores == {10, 20}
AddedScores == {0, 10, 20, 30}
\* limits get_top_scores is called with (5 by default, 10 by
\* show_high_scores)
Limits == {0, 1, 5, 10, 12}

\* lists of n entries that are explored as the content of the file:
\* all scores equal, scores rising, falling, or alternating
LoadedList(n, shape) ==
  [i \in 1..n |->
     [score |-> CASE shape = "low" -> 10
                  [] shape = "high" -> 20
                  [] shape = "rising" -> IF 2 * i <= n THEN 10 ELSE 20
                  [] shape = "falling" -> IF 2 * i <= n THEN 20 ELSE 10
                  [] shape = "zigzag" -> IF i % 2 = 1 THEN 10 ELSE 20,
      difficulty |-> "Easy",
      date |-> 0]]

Shapes == {"low", "high", "rising", "falling", "zigzag"}

\* what the score file can hold at startup: no file, a file that is no
\* JSON, or a JSON list of entries
Files ==
  {NoFile, [exists |-> TRUE, valid |-> FALSE, content |-> <<>>]}
    \cup {[exists |-> TRUE, valid |-> TRUE, content |-> LoadedList(n, shape)] :
            n \in 0..MaxLoaded, shape \in Shapes}

\* ScoreManager.load_scores
load_scores(f) == IF f.exists /\ f.valid THEN f.content ELSE <<>>

\* list.sort(key=lambda x: x['score'], reverse=True): stable, entries of
\* equal score keep their order
RECURSIVE SortDescending(_)
SortDescending(s) ==
  IF s = <<>> THEN <<>>
  ELSE LET t == SortDescending(SubSeq(s, 1, Len(s) - 1))
           x == s[Len(s)]
           k == Cardinality({i \in 1..Len(t) : t[i].score >= x.score})
       IN  SubSeq(t, 1, k) \o <<x>> \o SubSeq(t, k + 1, Len(t))

\* ScoreManager.add_score: self.scores after the call
AddScoreNoSort(scs, points, difficulty_name, date) ==
  LET score_entry ==
        [score |-> points, difficulty |-> difficulty_name, date |-> date]
      appended == Append(scs, score_entry)
  IN  SubSeq(appended, 1, Min(Len(appended), MaxEntries))
AddScoreNewestFirst(scs, points, difficulty_name, date) ==
  LET score_entry ==
        [score |-> points, difficulty |-> difficulty_name, date |-> date]
      sorted == SortDescending(<<score_entry>> \o scs)
  IN  SubSeq(sorted, 1, Min(Len(sorted), MaxEntries))
add_score(scs, points, difficulty_name, date) ==
  LET score_entry ==
        [score |-> points, difficulty |-> difficulty_name, date |-> date]
      sorted == SortDescending(Append(scs, score_entry))
  IN  SubSeq(sorted, 1, Min(Len(sorted), MaxEntries))

\* ScoreManager.get_top_scores: self.scores[:limit]
get_top_scores(scs, limit) == SubSeq(scs, 1, Min(limit, Len(scs)))

\* ScoreManager.is_new_high_score
is_new_high_score(scs, points) ==
  IF scs = <<>> THEN TRUE ELSE points > scs[1].score

\* ScoreManager(): the store after load_scores
InitScores ==
  /\ difficulty = "none"
  /\ height = 0
  /\ width = 0
  /\ score = 0
  /\ running = FALSE
  /\ snake = <<>>
  /\ direction = "RIGHT"
  /\ next_direction = "RIGHT"
  /\ food = <<0, 0>>
  /\ pc = "store"
  /\ key = <<>>
  /\ result = "none"
  /\ ticks = 0
  /\ sessions = 0
  /\ tty = TRUE
  /\ term = "cooked"
  /\ old_settings = "cooked"
  /\ line = ""
  /\ error = "none"
  /\ budget = MaxMainTicks
  /\ NoMenu
  /\ scores_file \in Files
  /\ scores = load_scores(scores_file)
  /\ adds = 0
  /\ reply = NoReply
  /\ NoStdin

\* save_scores: the files the call can leave behind.  When open() raises
\* the file is as it was; when json.dump raises after open(..., 'w') has
\* truncated the file, what is left is no JSON.  Either exception is caught
\* and printed.
save_scores(f, scs, saved) ==
  IF saved
  THEN {[exists |-> TRUE, valid |-> TRUE, content |-> scs]}
  ELSE {f, [exists |-> TRUE, valid |-> FALSE, content |-> <<>>]}

\* add_score, with save_scores; reply.saved tells whether the dump succeeded
AddScore ==
  /\ pc = "store"
  /\ adds < MaxAdds
  /\ \E sc \in AddedScores, name \in {"Hard"}, saved \in BOOLEAN :
       /\ scores' = add_score(scores, sc, name, adds + 1)
       /\ scores_file' \in save_scores(scores_file, scores', saved)
       /\ reply' = [op |-> "add_score", arg |-> sc, value |-> "None",
                    saved |-> saved]
  /\ adds' = adds + 1
  /\ UNCHANGED <<difficulty, height, width, score, running, snake, direction,
                 next_direction, food, pc, key, result, ticks, term,
                 main_vars, menu_vars, stdin_vars>>

IsNewHighScore ==
  /\ pc = "store"
  /\ \E sc \in AddedScores :
       reply' = [op |-> "is_new_high_score", arg |-> sc,
                 value |-> is_new_high_score(scores, sc)]
  /\ UNCHANGED <<difficulty, height, width, score, running, snake, direction,
                 next_direction, food, pc, key, result, ticks, term,
                 main_vars, menu_vars, stdin_vars, scores, scores_file, adds>>

GetTopScores ==
  /\ pc = "store"
  /\ \E limit \in Limits :
       reply' = [op |-> "get_top_scores", arg |-> limit,
                 value |-> get_top_scores(scores, limit)]
  /\ UNCHANGED <<difficulty, height, width, score, running, snake, direction,
                 next_direction, food, pc, key, result, ticks, term,
                 main_vars, menu_vars, stdin_vars, scores, scores_file, adds>>

\* show_high_scores: a new ScoreManager() is built, which loads the file,
\* and its get_top_scores(10) is what the screen lists
ShowHighScores ==
  /\ pc = "store"
  /\ reply' = [op |-> "show_high_scores", arg |-> 10,
               value |-> get_top_scores(load_scores(scores_file), 10)]
  /\ UNCHANGED <<difficulty, height, width, score, running, snake, direction,
                 next_direction, food, pc, key, result, ticks, term,
                 main_vars, menu_vars, stdin_vars, scores, scores_file, adds>>

NextScores ==
  \/ AddScore
  \/ IsNewHighScore
  \/ GetTopScores
  \/ ShowHighScores

SpecScores == InitScores /\ [][NextScores]_vars

(***************************************************************************)
(* The session with its input source: the keys typed reach the terminal's  *)
(* input queue; select.select polls the file descriptor, sys.stdin.read(1) *)
(* reads through the buffer of sys.stdin.                                  *)
(***************************************************************************)
\* iterations of run() explored with the input source
MaxInputTicks == 3
\* keys typed during a session
MaxTyped == 3

\* the bytes a key sends: the four arrows, the Esc key, q and another key
Keys ==
  { <<"ESC", "[", "A">>, <<"ESC", "[", "B">>, <<"ESC", "[", "C">>,
    <<"ESC", "[", "D">>, <<"ESC">>, <<"q">>, <<"x">> }

InitInput ==
  /\ difficulty \in DOMAIN Difficulties
  /\ height = Difficulties[difficulty][1]
  /\ width = Difficulties[difficulty][2]
  /\ score = 0
  /\ running = TRUE
  /\ snake = InitialSnake(height, width)
  /\ direction = "RIGHT"
  /\ next_direction = "RIGHT"
  /\ food \in generate_food(snake, height, width)
  /\ pc = "while"
  /\ key = <<>>
  /\ result = "none"
  /\ ticks = 0
  /\ sessions = 1
  /\ tty = TRUE
  /\ term = "cbreak"
  /\ old_settings = "cooked"
  /\ line = ""
  /\ error = "none"
  /\ budget = MaxInputTicks
  /\ NoStore
  /\ NoMenu
  /\ NoStdin

\* a key is typed while the program is not reading: before the poll of a
\* tick, or while a read(1) waits for a byte
TypeKey ==
  /\ \/ pc = "draw"
     \/ (pc \in {"key2", "key3"} /\ buffered = <<>> /\ pending = <<>>)
  /\ typed < MaxTyped
  /\ \E k \in Keys : pending' = pending \o k
  /\ typed' = typed + 1
  /\ UNCHANGED <<difficulty, height, width, score, running, snake, direction,
                 next_direction, food, pc, key, result, ticks, term,
                 main_vars, store_vars, menu_vars, buffered>>

\* select.select([sys.stdin], [], [], 0.0)[0]: the descriptor is readable
\* when the terminal's queue holds a byte; what sys.stdin has read ahead
\* does not count
Readable(pend, buf) == pend # <<>>

\* sys.stdin.read(1): sys.stdin is a buffered text stream; when its buffer
\* is empty it takes every byte the terminal has (a chunk of up to 8192),
\* returns the first character and keeps the rest.  The call waits while
\* there is nothing to take.
CanRead(pend, buf) == buf # <<>> \/ pend # <<>>
CharRead(pend, buf) == IF buf # <<>> THEN Head(buf) ELSE Head(pend)
BufferAfterRead(pend, buf) == IF buf # <<>> THEN Tail(buf) ELSE Tail(pend)
PendingAfterRead(pend, buf) == IF buf # <<>> THEN pend ELSE <<>>

\* handle_input up to the test of key: get_key_press, `if key`, and the
\* elif branch of a printable key
PollInput ==
  /\ pc = "input"
  /\ IF ~Readable(pending, buffered)
     THEN /\ key' = <<>>
          /\ pc' = "move"
          /\ UNCHANGED <<running, pending, buffered>>
     ELSE /\ key' = <<CharRead(pending, buffered)>>
          /\ buffered' = BufferAfterRead(pending, buffered)
          /\ pending' = PendingAfterRead(pending, buffered)
          /\ running' = RunningAfter(key', running)
          /\ pc' = IF key'[1] = "ESC" THEN "key2" ELSE "move"
  /\ UNCHANGED <<difficulty, height, width, score, snake, direction,
                 next_direction, food, result, ticks, term, main_vars,
                 store_vars, menu_vars, typed>>

\* key2 = sys.stdin.read(1)
ReadKey2 ==
  /\ pc = "key2"
  /\ CanRead(pending, buffered)
  /\ key' = Append(key, CharRead(pending, buffered))
  /\ buffered' = BufferAfterRead(pending, buffered)
  /\ pending' = PendingAfterRead(pending, buffered)
  /\ pc' = IF key'[2] = "[" THEN "key3" ELSE "move"
  /\ UNCHANGED <<difficulty, height, width, score, running, snake, direction,
                 next_direction, food, result, ticks, term, main_vars,
                 store_vars, menu_vars, typed>>

\* key3 = sys.stdin.read(1), and the if/elif chain on key3
ReadKey3 ==
  /\ pc = "key3"
  /\ CanRead(pending, buffered)
  /\ key' = Append(key, CharRead(pending, buffered))
  /\ buffered' = BufferAfterRead(pending, buffered)
  /\ pending' = PendingAfterRead(pending, buffered)
  /\ next_direction' = NextDirectionAfter(key', direction, next_direction)
  /\ pc' = "move"
  /\ UNCHANGED <<difficulty, height, width, score, running, snake, direction,
                 food, result, ticks, term, main_vars, store_vars, menu_vars,
                 typed>>

NextInput ==
  \/ TypeKey
  \/ While
  \/ Draw
  \/ PollInput
  \/ ReadKey2
  \/ ReadKey3
  \/ MoveSnake
  \/ Sleep
  \/ GameOver
  \/ Cleanup

SpecInput == InitInput /\ [][NextInput]_vars

(***************************************************************************)
(* Vocabulary of the properties.                                           *)
(***************************************************************************)
\* the direction whose delta is the negation of d's delta
Opposite(d) ==
  CHOOSE e \in Directions :
    Delta(e)[1] = -Delta(d)[1] /\ Delta(e)[2] = -Delta(d)[2]

\* the bytes a terminal sends for the arrow key of direction d
ArrowKey(d) ==
  CASE d = "UP" -> <<"ESC", "[", "A">>
    [] d = "DOWN" -> <<"ESC", "[", "B">>
    [] d = "RIGHT" -> <<"ESC", "[", "C">>
    [] d = "LEFT" -> <<"ESC", "[", "D">>

\* a step of move_snake, and one that returned True
Stepped == pc = "move" /\ pc' # "move"
SteppedOk == Stepped /\ result' \in {"moved", "ate"}
\* the head move_snake computes in the current state
Ahead == NewHead(snake[1], next_direction)

(***************************************************************************)
(* C1: in every reachable state of a session no two snake segments occupy  *)
(* the same position.                                                      *)
(***************************************************************************)
C1_NoOverlap ==
  \A i, j \in 1..Len(snake) : i # j => snake[i] # snake[j]

\* a snake of five segments has moved on after two meals
C1_Witness == Len(snake) >= 5 /\ result = "moved" /\ pc = "sleep"

(***************************************************************************)
(* C2: in every reachable state of a session, the initial placement        *)
(* included, the food is not on any snake segment.                         *)
(***************************************************************************)
C2_FoodOffSnake == food \notin Range(snake)

\* the food has just been replaced after a meal
C2_Witness == result = "ate" /\ pc = "sleep"

(***************************************************************************)
(* C3: a successful step keeps the length of the snake when the new head   *)
(* is not on the food and increases it by exactly 1 when it is.            *)
(***************************************************************************)
C3_Length ==
  [][SteppedOk =>
       IF Ahead = food
       THEN Len(snake') = Len(snake) + 1
       ELSE Len(snake') = Len(snake)]_vars

\* the first meal: the snake has grown from three to four segments
C3_Witness == result = "ate" /\ Len(snake) = 4 /\ score = ScoreStep

(***************************************************************************)
(* C4: a step ends the game with a wall collision exactly when the new     *)
(* head has row <= 0, row >= height-1, column <= 0 or column >= width-1.   *)
(***************************************************************************)
C4_Wall ==
  [][Stepped =>
       ((result' = "wall" /\ pc' = "game_over")
          <=> (\/ Ahead[1] <= 0
               \/ Ahead[1] >= height - 1
               \/ Ahead[2] <= 0
               \/ Ahead[2] >= width - 1))]_vars

\* the snake has run into the top wall
C4_Witness ==
  result = "wall" /\ pc = "game_over" /\ snake[1][1] = 1 /\ direction = "UP"

(***************************************************************************)
(* C5: for a new head that is not a wall cell, a step ends the game with a *)
(* self collision exactly when the new head equals a segment of the snake  *)
(* as it was before the step, the tail that the step would vacate included.*)
(***************************************************************************)
C5_Self ==
  [][(Stepped /\ ~(\/ Ahead[1] <= 0
                   \/ Ahead[1] >= height - 1
                   \/ Ahead[2] <= 0
                   \/ Ahead[2] >= width - 1)) =>
       ((result' = "self" /\ pc' = "game_over")
          <=> (\E i \in 1..Len(snake) : snake[i] = Ahead))]_vars

\* the head has run into the cell of the tail
C5_Witness ==
  /\ result = "self"
  /\ pc = "game_over"
  /\ NewHead(snake[1], direction) = snake[Len(snake)]

(***************************************************************************)
(* C6: an arrow key for the opposite of the current direction leaves the   *)
(* pending direction unchanged, one for a perpendicular direction becomes  *)
(* the pending direction; moving Right with Left requested in the same     *)
(* tick, the direction after the step is still Right.                      *)
(***************************************************************************)
C6_Reversal ==
  [][/\ (pc = "input" /\ pc' = "move") =>
          \A d \in Directions :
            key' = ArrowKey(d) =>
              /\ d = Opposite(direction) => next_direction' = next_direction
              /\ d \notin {direction, Opposite(direction)} =>
                   next_direction' = d
     /\ (Stepped /\ direction = "RIGHT" /\ key = ArrowKey("LEFT")) =>
          direction' = "RIGHT"]_vars

\* a snake of length 5 moving Right, Left read in this tick, step pending
C6_Witness ==
  /\ pc = "move"
  /\ Len(snake) = 5
  /\ direction = "RIGHT"
  /\ key = ArrowKey("LEFT")

(***************************************************************************)
(* C7: in every reachable state the pending direction is not the opposite  *)
(* of the current direction, and the head the next step computes is not    *)
(* the second segment of the snake.                                        *)
(***************************************************************************)
C7_NoReverse ==
  /\ next_direction # Opposite(direction)
  /\ Ahead # snake[2]

\* a reversal was requested while moving Up and the step is pending
C7_Witness ==
  pc = "move" /\ direction = "UP" /\ key = ArrowKey("DOWN")

(***************************************************************************)
(* C8: a step whose new head is the food cell increases the score by       *)
(* exactly 10 and replaces the food by a cell that no segment of the snake *)
(* after the step occupies.                                                *)
(***************************************************************************)
C8_Eat ==
  [][(SteppedOk /\ Ahead = food) =>
       /\ score' = score + 10
       /\ food' \notin Range(snake')
       /\ snake'[1] = food]_vars

\* the second meal of a session
C8_Witness == result = "ate" /\ score = 2 * ScoreStep /\ Len(snake) = 5

(***************************************************************************)
(* C9: a successful step whose new head is not on the food yields the new  *)
(* head (head + delta of the committed direction) followed by the old      *)
(* snake without its last segment, and leaves score and food unchanged.    *)
(***************************************************************************)
C9_Move ==
  [][(SteppedOk /\ Ahead # food) =>
       /\ snake' = << <<snake[1][1] + Delta(direction')[1],
                        snake[1][2] + Delta(direction')[2]>> >>
                     \o SubSeq(snake, 1, Len(snake) - 1)
       /\ score' = score
       /\ food' = food]_vars

\* board 20x40, first step to the right with no food ahead
C9_Witness ==
  /\ difficulty = "medium"
  /\ ticks = 0
  /\ result = "moved"
  /\ snake = << <<10, 21>>, <<10, 20>>, <<10, 19>> >>
  /\ score = 0

C11_QuitFreezes ==
  [][(Stepped /\ ~running) =>
       /\ snake' = snake
       /\ food' = food
       /\ score' = score
       /\ result' \notin {"wall", "self"}]_vars

(***************************************************************************)
(* C14: a session that has reached its end has reported its final score to *)
(* the score store exactly once.                                           *)
(***************************************************************************)
C14_Reported ==
  pc = "done" => (adds = 1 /\ Len(scores) = 1 /\ scores[1].score = score)

(***************************************************************************)
(* C13: at the replay prompt, yes starts a new running session directly,   *)
(* with no difficulty selection in between, no leaves the replay loop, and *)
(* any other answer prompts again.                                         *)
(***************************************************************************)
C13_Replay ==
  [][(pc = "done" \/ pc = "prompt") =>
       (IF LowerLine(Strip(line')) \in {"y", "yes"}
        THEN pc' = "while" /\ sessions' = sessions + 1
        ELSE IF LowerLine(Strip(line')) \in {"n", "no"}
        THEN pc' = "exit"
        ELSE (pc' = "prompt" /\ sessions' = sessions))]_vars

(***************************************************************************)
(* C15: every session, the first and every replay, starts from a fresh     *)
(* state: three segments in one row, head at (height div 2, width div 2),  *)
(* body to its left, both directions Right, score 0, running, and the food *)
(* on a cell off the snake.                                                *)
(***************************************************************************)
Fresh ==
  /\ Len(snake) = 3
  /\ snake[1] = <<height \div 2, width \div 2>>
  /\ snake[2] = <<snake[1][1], snake[1][2] - 1>>
  /\ snake[3] = <<snake[1][1], snake[1][2] - 2>>
  /\ direction = "RIGHT"
  /\ next_direction = "RIGHT"
  /\ score = 0
  /\ running
  /\ \A i \in 1..Len(snake) : food # snake[i]
  /\ <<height, width>> = Difficulties[difficulty]

C15_FreshStart ==
  [][(pc = "select" /\ pc' = "while") => Fresh']_vars

\* a replay has just been constructed after a session that scored
C15_Witness ==
  sessions = 2 /\ pc = "while" /\ ticks = 0 /\ Fresh /\ difficulty = "hard"

(***************************************************************************)
(* C17: when stdin is not an interactive terminal, starting a session does *)
(* not abort: no error ends the program and the tick loop is entered.      *)
(***************************************************************************)
C17_Fallback ==
  [][(~tty /\ pc = "select"
        /\ ChosenDifficulty(Strip(line')) \in DOMAIN Difficulties) =>
       (pc' = "while" /\ error' = "none")]_vars

(***************************************************************************)
(* C12: in game.main, choosing Start Game (Enter on the first item, or     *)
(* key 1) takes the program into a running session with the current        *)
(* difficulty.                                                             *)
(***************************************************************************)
C12_StartRuns ==
  [][(pc = "menu"
        /\ ((menu_key' = "ENTER" /\ selected_index = 0) \/ menu_key' = "1")) =>
       (/\ pc' = "while"
        /\ running'
        /\ difficulty' = current_difficulty
        /\ error' = "none")]_vars

(***************************************************************************)
(* C16: whenever control is back at a menu or prompt, or the program has   *)
(* ended, the terminal is in the input mode it had before the session.     *)
(***************************************************************************)
C16_Restored ==
  pc \in {"menu", "difficulty_menu", "select", "done", "prompt", "exit"} =>
    term = "cooked"

(***************************************************************************)
(* C18: in every reachable state of the score store, whatever list was     *)
(* loaded at startup, the store holds at most 10 entries and they are      *)
(* ordered by score descending.                                            *)
(***************************************************************************)
C18_TopTenSorted ==
  /\ Len(scores) <= 10
  /\ \A i, j \in 1..Len(scores) :
       i < j => scores[i].score >= scores[j].score

(***************************************************************************)
(* C19: is_new_high_score(score) is true exactly when the store is empty   *)
(* or score is strictly greater than every score held in the store.        *)
(***************************************************************************)
C19_NewHigh ==
  reply.op = "is_new_high_score" =>
    (reply.value <=>
       (\/ Len(scores) = 0
        \/ \A i \in 1..Len(scores) : reply.arg > scores[i].score))

(***************************************************************************)
(* C20: get_top_scores(n) returns exactly min(n, store size) entries, the  *)
(* highest-scoring entries of the store in descending order of score.      *)
(***************************************************************************)
C20_TopN ==
  reply.op = "get_top_scores" =>
    LET top == reply.value
        n == IF reply.arg < Len(scores) THEN reply.arg ELSE Len(scores)
    IN  /\ Len(top) = n
        /\ \A i, j \in 1..Len(top) : i < j => top[i].score >= top[j].score
        /\ \E pick \in SUBSET (1..Len(scores)) :
             /\ Cardinality(pick) = n
             /\ \A i \in pick, j \in (1..Len(scores)) \ pick :
                  scores[i].score >= scores[j].score
             /\ \A v \in LoadedScores \cup AddedScores :
                  Cardinality({i \in pick : scores[i].score = v})
                    = Cardinality({i \in 1..Len(top) : top[i].score = v})

\* number of entries of s whose score is v
Count(s, v) == Cardinality({i \in 1..Len(s) : s[i].score = v})

\* s is ordered by score, highest first
Descending(s) == \A i, j \in 1..Len(s) : i < j => s[i].score >= s[j].score

(***************************************************************************)
(* C21: an add_score whose save fails still returns normally and leaves in *)
(* memory what a successful one leaves: the new entry inserted, the list   *)
(* sorted and cut to ten; and a score file that cannot be loaded at        *)
(* startup gives an empty store, not an error.                             *)
(***************************************************************************)
C21_SaveFailure ==
  [][/\ (adds = 0 /\ ~(scores_file.exists /\ scores_file.valid)) =>
          (scores = <<>> /\ error = "none")
     /\ (adds' = adds + 1 /\ ~reply'.saved) =>
          /\ reply'.value = "None"
          /\ error' = "none"
          /\ Len(scores') = Min(Len(scores) + 1, 10)
          /\ Descending(scores')
          /\ \A v \in LoadedScores \cup AddedScores :
               Count(scores', v) <=
                 Count(scores, v) + (IF v = reply'.arg THEN 1 ELSE 0)
          /\ \A v \in LoadedScores \cup AddedScores :
               Count(scores', v) <
                 Count(scores, v) + (IF v = reply'.arg THEN 1 ELSE 0) =>
                   \A i \in 1..Len(scores') : scores'[i].score >= v]_vars

\* the first record could not be saved and no readable file is left: the
\* one entry exists in memory only
C21_Witness ==
  /\ reply.op = "add_score"
  /\ ~reply.saved
  /\ ~scores_file.valid
  /\ adds = 1
  /\ Len(scores) = 1
  /\ scores[1].score = reply.arg

(***************************************************************************)
(* C22: after a record whose save failed, every later high-score query of  *)
(* the process, the High Scores screen included, shows the list held in    *)
(* memory with the unsaved entry, not the content of the score file.       *)
(***************************************************************************)
C22_MemoryAuthoritative ==
  reply.op = "show_high_scores" =>
    reply.value = SubSeq(scores, 1, Min(10, Len(scores)))

(***************************************************************************)
(* C23: reading input inside the tick loop never waits: whatever is        *)
(* pending (no key, an arrow sequence, a printable key, a lone ESC byte),  *)
(* every read that handle_input makes finds its byte at once.              *)
(***************************************************************************)
C23_NeverWaits ==
  pc \in {"key2", "key3"} => CanRead(pending, buffered)

\* the keys typed and not yet read by the program, oldest first
Unread == buffered \o pending

(***************************************************************************)
(* C28: a tick in which no key is pending leaves the pending direction and *)
(* the running flag unchanged and reads nothing, and a tick in which keys  *)
(* wait unread takes the oldest of them, so that keys typed faster than    *)
(* the ticks are applied one per tick in the order typed.                  *)
(***************************************************************************)
C28_OneKeyPerTick ==
  [][(pc = "input" /\ pc' # "input") =>
       IF Unread = <<>>
       THEN /\ key' = <<>>
            /\ next_direction' = next_direction
            /\ running' = running
            /\ pc' = "move"
       ELSE /\ key' = <<Head(Unread)>>
            /\ Unread' = Tail(Unread)]_vars

(***************************************************************************)
(* C24: within a tick the operations come in the order read input, apply   *)
(* direction and step, render, sleep: the state a step produces is         *)
(* rendered in the same tick, after the step and before the sleep.         *)
(***************************************************************************)
C24_TickOrder ==
  [][/\ (pc = "input" /\ pc' # pc) => pc' = "move"
     /\ SteppedOk => pc' = "draw"
     /\ (pc = "draw" /\ pc' # pc) => pc' = "sleep"]_vars

(***************************************************************************)
(* C25: whenever generate_food is called, at construction or after a meal, *)
(* at least one interior cell is free of the snake, so that the random     *)
(* search for a free cell ends.                                            *)
(***************************************************************************)
C25_FoodTerminates ==
  pc = "generate_food" =>
    \E r \in 1..(height - 2), c \in 1..(width - 2) :
      \A i \in 1..Len(snake) : snake[i] # <<r, c>>

(***************************************************************************)
(* C26: for every difficulty, terminal type and viewport size, the board   *)
(* of a session has height >= 10 and width >= 20.                          *)
(***************************************************************************)
C26_MinimumBoard ==
  sessions > 0 => (height >= 10 /\ width >= 20)

(***************************************************************************)
(* C27: in every state of a session, the initial one included and for      *)
(* every board size a session can be created with, every snake segment and *)
(* the food lie strictly inside the outer ring: 1 <= row <= height-2 and   *)
(* 1 <= column <= width-2.                                                 *)
(***************************************************************************)
C27_InsideRing ==
  sessions > 0 =>
    \A p \in Range(snake) \cup {food} :
      /\ 1 <= p[1] /\ p[1] <= height - 2
      /\ 1 <= p[2] /\ p[2] <= width - 2

(***************************************************************************)
(* C29: a step that fails with a wall or self collision leaves the snake,  *)
(* the food and the score as they were; the only thing it changes is the   *)
(* current direction, which becomes the pending direction.                 *)
(***************************************************************************)
C29_FailedStep ==
  [][(Stepped /\ result' \in {"wall", "self"}) =>
       /\ snake' = snake
       /\ food' = food
       /\ score' = score
       /\ direction' = next_direction
       /\ next_direction' = next_direction
       /\ running' = running
       /\ <<height', width', difficulty'>> = <<height, width, difficulty>>]_vars

\* after two meals a turn to the left ran the head into the body: the
\* failed step has committed the turn
C29_Witness ==
  /\ result = "self"
  /\ Len(snake) = 5
  /\ score = 2 * ScoreStep
  /\ direction # "RIGHT"
  /\ snake[1][2] > snake[5][2]

\* the entries of s whose score is v, in the order of s
RECURSIVE WithScore(_, _)
WithScore(s, v) ==
  IF s = <<>> THEN <<>>
  ELSE IF Head(s).score = v THEN <<Head(s)>> \o WithScore(Tail(s), v)
  ELSE WithScore(Tail(s), v)

(***************************************************************************)
(* C30: after add_score the store holds the ten highest of the previous    *)
(* entries and the new one, highest first; among equal scores the older    *)
(* entries win and keep their order, so a new entry that equals the lowest *)
(* score of a full store of ten is not kept.                               *)
(***************************************************************************)
C30_BestTen ==
  [][adds' = adds + 1 =>
       LET new == IF \E i \in 1..Len(scores') : scores'[i].date = adds'
                  THEN CHOOSE e \in Range(scores') : e.date = adds'
                  ELSE [score |-> reply'.arg, difficulty |-> "Easy",
                        date |-> adds']
           all == Append(scores, new)
       IN  /\ new.score = reply'.arg
           /\ Len(scores') = Min(Len(all), 10)
           /\ Descending(scores')
           /\ \A v \in LoadedScores \cup AddedScores :
                /\ WithScore(scores', v) =
                     SubSeq(WithScore(all, v), 1, Count(scores', v))
                /\ Count(scores', v) < Count(all, v) =>
                     \A i \in 1..Len(scores') : scores'[i].score >= v
           /\ (Len(scores) = 10 /\ Descending(scores)
                 /\ reply'.arg = scores[10].score) => scores' = scores]_vars

\* a second record that equals the lowest score of a full store, not kept
C30_Witness ==
  /\ reply.op = "add_score"
  /\ adds = 2
  /\ Len(scores) = 10
  /\ reply.arg = scores[10].score
  /\ \A i \in 1..Len(scores) : scores[i].date # adds

(***************************************************************************)
(* C31: in every reachable state of a session the snake is contiguous:     *)
(* each segment is at Manhattan distance exactly 1 from the segment before *)
(* it, head to tail.                                                       *)
(***************************************************************************)
C31_Contiguous ==
  \A i \in 2..Len(snake) :
    Abs(snake[i][1] - snake[i - 1][1]) + Abs(snake[i][2] - snake[i - 1][2]) = 1

\* a snake that has grown by a meal and has turned twice since the start
C31_Witness ==
  /\ Len(snake) >= 4
  /\ result = "moved"
  /\ direction = "LEFT"
  /\ snake[1][1] # snake[Len(snake)][1]

(***************************************************************************)
(* C32: in every reachable state of a session score = 10 * (length of the  *)
(* snake - 3); the score is a non-negative multiple of 10 and never        *)
(* decreases, and the snake never has fewer than 3 segments.               *)
(***************************************************************************)
C32_ScoreIsGrowth ==
  [][/\ score = 10 * (Len(snake) - 3)
     /\ score' = 10 * (Len(snake') - 3)
     /\ score >= 0 /\ score % 10 = 0
     /\ score' >= score
     /\ Len(snake) >= 3 /\ Len(snake') >= 3]_vars

\* the third meal of a session
C32_Witness ==
  result = "ate" /\ score = 3 * ScoreStep /\ Len(snake) = 6 /\ pc = "while"

(***************************************************************************)
(* C33: in the main menu (5 items) and in the difficulty menu (4 items)    *)
(* the selected index stays within the items after any keys: Up and Down   *)
(* move it by one and wrap round (Up on the first item selects the last,   *)
(* Down on the last selects the first), every other key leaves it as it is.*)
(***************************************************************************)
C33_MenuIndex ==
  [][/\ selected_index \in 0..4 /\ selected_index' \in 0..4
     /\ difficulty_index \in 0..3 /\ difficulty_index' \in 0..3
     /\ pc = "menu" =>
          selected_index' =
            IF menu_key' = "UP"
            THEN (IF selected_index = 0 THEN 4 ELSE selected_index - 1)
            ELSE IF menu_key' = "DOWN"
            THEN (IF selected_index = 4 THEN 0 ELSE selected_index + 1)
            ELSE selected_index
     /\ pc = "difficulty_menu" =>
          difficulty_index' =
            IF menu_key' = "UP"
            THEN (IF difficulty_index = 0 THEN 3 ELSE difficulty_index - 1)
            ELSE IF menu_key' = "DOWN"
            THEN (IF difficulty_index = 3 THEN 0 ELSE difficulty_index + 1)
            ELSE difficulty_index]_vars

\* Up on the first item of the main menu has selected the last, after Up
\* on the first item of the difficulty menu had selected its last
C33_Witness ==
  /\ pc = "menu"
  /\ menu_key = "UP"
  /\ selected_index = 4
  /\ difficulty_index = 3

====
